---------------------------- MODULE Spec2Model ----------------------------
(***************************************************************************)
(* A model of uWS::HttpParser (src/src/HttpParser.h): the streaming        *)
(* HTTP/1.x request parser.  One parser object serves one connection; the  *)
(* driver feeds it the bytes of the connection, window after window, with  *)
(* consumePostPadded.  Bytes are the integers 0..255, buffers are          *)
(* sequences of bytes (position p of a sequence is C index p-1), and the   *)
(* 32-bit counter remainingStreamingBytes is a pair of its two highest     *)
(* bits and its low 30 bits.                                               *)
(***************************************************************************)
EXTENDS Integers, Sequences, FiniteSets, TLC

(***************************************************************************)
(* Bytes.                                                                  *)
(***************************************************************************)
CR == 13
LF == 10
SPACE == 32
COLON == 58
QUESTION == 63
ZERO == 48
FENCE_A == 97

Max(a, b) == IF a >= b THEN a ELSE b
Min(a, b) == IF a <= b THEN a ELSE b

\* The smallest element of a non-empty set of integers.
Least(S) == CHOOSE x \in S : \A y \in S : x <= y

\* c |= 32
Or32(c) == IF (c \div 32) % 2 = 1 THEN c ELSE c + 32

\* The scans of the model look for a byte block by block, each block
\* BlockGrowth times the one before: how the search is evaluated, not what
\* it finds.
Block == 16
BlockGrowth == 8

\* The bytes of s from position p on.
DropTo(s, p) == SubSeq(s, p, Len(s))

(***************************************************************************)
(* unsigned int, 32 bits: [hi |-> bits 31..30, lo |-> bits 29..0].         *)
(***************************************************************************)
TwoTo15 == 32768
TwoTo30 == 1073741824

U32(hi, lo) == [hi |-> hi, lo |-> lo]
U32Zero == U32(0, 0)
U32IsZero(x) == x.hi = 0 /\ x.lo = 0
\* x >= n, x == n, min(x, n) and x - n (mod 2^32) for a length n < 2^30
U32Ge(x, n) == x.hi > 0 \/ x.lo >= n
U32Eq(x, n) == x.hi = 0 /\ x.lo = n
\* A variant that takes the length whatever the counter.
U32MinAvailable(x, n) == n
U32Min(x, n) == IF U32Ge(x, n) THEN n ELSE x.lo
U32Sub(x, n) ==
  IF x.lo >= n THEN U32(x.hi, x.lo - n)
  ELSE U32((x.hi + 3) % 4, (x.lo + TwoTo30) - n)
\* x * 10u + d (mod 2^32), d an integer in -304..255, by 15-bit limbs
U32Mul10Add(x, d) ==
  LET b  == x.lo % TwoTo15
      a  == x.lo \div TwoTo15
      t0 == b * 10 + d
      b1 == t0 % TwoTo15
      c0 == (t0 - b1) \div TwoTo15
      t1 == a * 10 + c0
      a1 == t1 % TwoTo15
      c1 == (t1 - a1) \div TwoTo15
  IN  U32((x.hi * 10 + c1) % 4, a1 * TwoTo15 + b1)

(***************************************************************************)
(* HttpParser::toUnsignedInteger                                           *)
(***************************************************************************)
\* The value of a char c: char is signed, a byte of 0x80 or more is
\* negative and (unsigned int) c extends its sign.
SignedChar(c) == IF c >= 128 THEN c - 256 ELSE c

RECURSIVE toUnsignedIntegerFrom(_, _, _)
toUnsignedIntegerFrom(str, i, acc) ==
  IF i > Len(str) THEN acc
  ELSE toUnsignedIntegerFrom(str, i + 1,
                             U32Mul10Add(acc, SignedChar(str[i]) - ZERO))

toUnsignedInteger(str) == toUnsignedIntegerFrom(str, 1, U32Zero)

(***************************************************************************)
(* HttpParser::find_cr: the first CR at or after p.  The scan reads the    *)
(* buffer one 8-byte word at a time from p, so it reads through the end of *)
(* the word that holds the CR it finds.  find_cr_read is the last position *)
(* read.  The fence guarantees a CR at position length+1.                  *)
(***************************************************************************)
WORD == 8

\* The first position at or after p of a CR, searched block by block.
RECURSIVE find_crIn(_, _, _)
find_crIn(buf, p, block) ==
  LET e == Min((p + block) - 1, Len(buf))
      S == {q \in p..e : buf[q] = CR}
  IN  IF S # {} THEN Least(S) ELSE find_crIn(buf, e + 1, block * BlockGrowth)

find_cr(buf, p) == find_crIn(buf, p, Block)

\* A variant that scans words of twice the size.
find_cr_readWide(buf, p) ==
  LET c == find_cr(buf, p)
  IN  p + (2 * WORD) * ((c - p) \div (2 * WORD)) + (2 * WORD - 1)

find_cr_read(buf, p) ==
  LET c == find_cr(buf, p) IN p + WORD * ((c - p) \div WORD) + (WORD - 1)

(***************************************************************************)
(* HttpParser::getHeaders.  buf is the fenced buffer (the data, then CR    *)
(* and 'a'), start the position of the head.  The result: consumed (0: no  *)
(* complete valid head), the header slots written (the request line        *)
(* first; on success an empty-key sentinel last), the buffer with the keys *)
(* lower-cased in place, and the last position read.                       *)
(***************************************************************************)
MAX_HEADERS == 50

\* End of the key scan: the first byte that is ':' or not above 32.
RECURSIVE KeyEndIn(_, _, _)
KeyEndIn(buf, p, block) ==
  LET e == Min((p + block) - 1, Len(buf))
      S == {q \in p..e : buf[q] = COLON \/ buf[q] <= SPACE}
  IN  IF S # {} THEN Least(S) ELSE KeyEndIn(buf, e + 1, block * BlockGrowth)

KeyEnd(buf, p) == KeyEndIn(buf, p, Block)

\* End of the trim: the first byte that is CR, or neither ':' nor below 33.
RECURSIVE TrimEndIn(_, _, _)
TrimEndIn(buf, p, block) ==
  LET e == Min((p + block) - 1, Len(buf))
      S == {q \in p..e : ~((buf[q] = COLON \/ buf[q] < 33) /\ buf[q] # CR)}
  IN  IF S # {} THEN Least(S) ELSE TrimEndIn(buf, e + 1, block * BlockGrowth)

TrimEnd(buf, p) == TrimEndIn(buf, p, Block)

\* *(postPaddedBuffer++) |= 32 over positions p..q-1
LowerCased(buf, p, q) ==
  SubSeq(buf, 1, p - 1) \o [i \in 1..(q - p) |-> Or32(buf[(p + i) - 1])]
                        \o SubSeq(buf, q, Len(buf))

Header(key, value) == [key |-> key, value |-> value]

HeadersResult(consumed, headers, buf, maxRead) ==
  [consumed |-> consumed, headers |-> headers, buf |-> buf, maxRead |-> maxRead]

\* A variant that takes one line more.
HeaderSlotFreeToLast(i) == i < MAX_HEADERS

\* i < HttpRequest::MAX_HEADERS - 1
HeaderSlotFree(i) == i < MAX_HEADERS - 1

\* One header line from position p (lines 210-221).  k: the end of the key
\* scan; buf: the buffer with the key lower-cased; v: the start of the
\* value; c: the CR that find_cr returns; read: the last position read.
HeaderLineAt(buf, p) ==
  LET Value(k, buf1, v, c) ==
        [k |-> k, buf |-> buf1, v |-> v, c |-> c,
         read |-> Max(IF buf1[k] = COLON THEN k + 1 ELSE k,
                      Max(find_cr_read(buf1, v), c + 1))]
      Trim(k, buf1, v) == Value(k, buf1, v, find_cr(buf1, v))
      Key(k, buf1) ==
        Trim(k, buf1, IF buf1[k] = COLON /\ buf1[k + 1] = SPACE
                      THEN k + 2 ELSE TrimEnd(buf1, k))
      Scan(k) == Key(k, LowerCased(buf, p, k))
  IN  Scan(KeyEnd(buf, p))

\* The state of the loop at line 208: whether it has returned and what,
\* the position p and the slot i of the next line, the slots filled, the
\* buffer and the last position read.
HeadersLoop(done, consumed, p, i, headers, buf, maxRead) ==
  [done |-> done, consumed |-> consumed, p |-> p, i |-> i,
   headers |-> headers, buf |-> buf, maxRead |-> maxRead]

\* One turn of the loop at line 208.  l: the header line at s.p; r1: the
\* last position read so far.
getHeadersTurn(s, start) ==
  IF s.done THEN s
  ELSE IF ~HeaderSlotFree(s.i)
  THEN HeadersLoop(TRUE, 0, s.p, s.i, s.headers, s.buf, s.maxRead)
  ELSE
    LET Line(l, r1) ==
          IF l.buf[l.c + 1] = LF
          THEN LET hs == Append(s.headers,
                                Header(SubSeq(l.buf, s.p, l.k - 1),
                                       SubSeq(l.buf, l.v, l.c - 1)))
                   n  == l.c + 2
               IN  IF l.buf[n] = CR
                   THEN IF l.buf[n + 1] = LF
                        THEN HeadersLoop(TRUE, (n + 2) - start, n, s.i,
                                         Append(hs, Header(<<>>, <<>>)),
                                         l.buf, Max(r1, n + 1))
                        ELSE HeadersLoop(TRUE, 0, n, s.i, hs, l.buf,
                                         Max(r1, n + 1))
                   ELSE HeadersLoop(FALSE, 0, n, s.i + 1, hs, l.buf,
                                    Max(r1, n))
          ELSE HeadersLoop(TRUE, 0, s.p, s.i, s.headers, l.buf, r1)
        Got(l) == Line(l, Max(s.maxRead, l.read))
    IN  Got(HeaderLineAt(s.buf, s.p))

\* The loop at line 208 after that many turns: the first half of them
\* and, unless the loop has returned, the others.
RECURSIVE getHeadersLoop(_, _, _)
getHeadersLoop(s, start, turns) ==
  LET Others(mid) ==
        IF mid.done THEN mid
        ELSE getHeadersLoop(mid, start, turns - (turns \div 2))
  IN  IF turns = 0 THEN s
      ELSE IF turns = 1 THEN getHeadersTurn(s, start)
      ELSE Others(getHeadersLoop(s, start, turns \div 2))

\* The loop returns within MAX_HEADERS turns: from a line, or at the turn
\* that finds no slot free.
getHeaders(buf, start) ==
  LET Returned1(s) == HeadersResult(s.consumed, s.headers, s.buf, s.maxRead)
  IN  Returned1(getHeadersLoop(HeadersLoop(FALSE, 0, start, 0, <<>>, buf, 0),
                               start, MAX_HEADERS))

(***************************************************************************)
(* HttpRequest: the view handed to the request handler.  headers holds the *)
(* slots getHeaders wrote: the request line, the header lines, and the     *)
(* empty-key sentinel.                                                     *)
(***************************************************************************)
\* A variant in upper case, which no lower-cased method key equals.
GET_METHOD_UPPER == <<71, 69, 84>>                                \* "GET"

GET_METHOD == <<103, 101, 116>>                                   \* "get"
CONTENT_LENGTH ==
  <<99, 111, 110, 116, 101, 110, 116, 45, 108, 101, 110, 103, 116, 104>>
                                                          \* "content-length"

\* The first slot after the request line whose key is empty: where the
\* loops for (h = headers; (++h)->key.length(); ) stop.
HeadersEnd(headers) == Least({j \in 2..Len(headers) : headers[j].key = <<>>})

\* BloomFilter (BloomFilter.h): reset(), then add() of every header key.
BloomKeys(headers) == {headers[j].key : j \in 2..(HeadersEnd(headers) - 1)}
\* BloomFilter::mightHave: never a false negative.
mightHave(bf, key) == key \in bf

\* Strip away tail of first "header value" aka URL: max(0, length - 9)
StripTail(value) == SubSeq(value, 1, Max(0, Len(value) - 9))

\* req->ancientHttp
AncientHttp(value) == Len(value) > 0 /\ value[Len(value)] = ZERO

\* req->querySeparator: the offset of the first '?', or the length
QuerySeparator(target) ==
  LET Q == {j \in 1..Len(target) : target[j] = QUESTION}
  IN  IF Q = {} THEN Len(target) ELSE Least(Q) - 1

HttpRequest(hs) ==
  LET target == StripTail(hs[1].value)
      hs1    == [hs EXCEPT ![1] = Header(hs[1].key, target)]
  IN  [headers |-> hs1,
       ancientHttp |-> AncientHttp(hs[1].value),
       querySeparator |-> QuerySeparator(target),
       bf |-> BloomKeys(hs1)]

getMethod(req) == req.headers[1].key

getHeader(req, lowerCasedHeader) ==
  LET H == {j \in 2..(HeadersEnd(req.headers) - 1) :
              req.headers[j].key = lowerCasedHeader}
  IN  IF mightHave(req.bf, lowerCasedHeader) /\ H # {}
      THEN req.headers[Least(H)].value
      ELSE <<>>

getUrl(req) == SubSeq(req.headers[1].value, 1, req.querySeparator)

\* A variant that does not strip the initial '?'.
getQueryWhole(req) ==
  IF req.querySeparator < Len(req.headers[1].value)
  THEN DropTo(req.headers[1].value, req.querySeparator + 1)
  ELSE <<>>

getQuery(req) ==
  IF req.querySeparator < Len(req.headers[1].value)
  THEN DropTo(req.headers[1].value, req.querySeparator + 2)
  ELSE <<>>

(***************************************************************************)
(* The chunked decoder (ChunkedEncoding.h): a resumable iterator over a    *)
(* window and the shared state.  hi = 1: reading a size line, lo the hex   *)
(* value read so far; hi = 3: inside a chunk, lo the bytes left of it, its *)
(* trailing CRLF included; hi = 2: after the zero-size line, lo the bytes  *)
(* of the closing CRLF still to drop; 0: done.                             *)
(***************************************************************************)
STATE_IS_CHUNKED == U32(1, 0)

isParsingChunkedEncoding(state) == state.hi # 0

HexNumber(digit) ==
  (IF digit >= 97 THEN digit - 39 ELSE IF digit >= 65 THEN digit - 7 ELSE digit)
    - ZERO

RECURSIVE HexValue(_, _, _, _)
HexValue(data, p, q, acc) ==
  IF p >= q THEN acc
  ELSE HexValue(data, p + 1, q,
                ((acc % (TwoTo30 \div 16)) * 16 + HexNumber(data[p])) % TwoTo30)

ChunkResult(chunks, rest, state) ==
  [chunks |-> chunks, rest |-> rest, state |-> state]

RECURSIVE ChunkLoop(_, _, _, _)
ChunkLoop(data, p, state, chunks) ==
  LET avail == (Len(data) - p) + 1 IN
  IF avail <= 0 THEN ChunkResult(chunks, <<>>, state)
  ELSE IF state.hi = 2
  THEN \* drop the closing CRLF; the decoder stops where the body ends
       IF avail >= state.lo
       THEN ChunkResult(chunks, DropTo(data, p + state.lo), U32Zero)
       ELSE ChunkResult(chunks, <<>>, U32(2, state.lo - avail))
  ELSE IF state.hi = 3
  THEN IF avail >= state.lo
       THEN ChunkLoop(data, p + state.lo, STATE_IS_CHUNKED,
                      IF state.lo > 2
                      THEN Append(chunks, SubSeq(data, p, (p + state.lo) - 3))
                      ELSE chunks)
       ELSE LET emit == Min(avail, Max(0, state.lo - 2))
            IN  ChunkResult(IF emit > 0
                            THEN Append(chunks, SubSeq(data, p, (p + emit) - 1))
                            ELSE chunks,
                            <<>>, U32(3, state.lo - avail))
  ELSE \* the size line: hex digits, then anything up to the line feed
       LET d   == Least({q \in p..(Len(data) + 1) :
                           q > Len(data) \/ data[q] <= SPACE})
           acc == HexValue(data, p, d, state.lo)
           NL  == {q \in d..Len(data) : data[q] = LF}
       IN  IF NL = {} THEN ChunkResult(chunks, <<>>, U32(1, acc))
           ELSE IF acc = 0
           THEN ChunkLoop(data, Least(NL) + 1, U32(2, 2), Append(chunks, <<>>))
           ELSE ChunkLoop(data, Least(NL) + 1, U32(3, (acc + 2) % TwoTo30), chunks)

\* for (auto chunk : uWS::ChunkIterator(&dataToConsume, &remainingStreamingBytes))
ChunkIterator(dataToConsume, state) == ChunkLoop(dataToConsume, 1, state, <<>>)

(***************************************************************************)
(* The three handlers.  user is the token of the connection.  A behaviour  *)
(* names the invocations of a call that return another token: the          *)
(* req-th request-handler invocation and the data-th data-handler          *)
(* invocation of the call (0: none), and the error handler's return value. *)
(* Every invocation is recorded as an event, in order.                     *)
(***************************************************************************)
USER == "user"
UPGRADED == "upgraded"
TAKEN == "taken"
CLOSED == "closed"

NoRequest ==
  [headers |-> <<>>, ancientHttp |-> FALSE, querySeparator |-> 0, bf |-> {}]
View(req) == [headers |-> req.headers, ancientHttp |-> req.ancientHttp,
              querySeparator |-> req.querySeparator, bf |-> req.bf]

Event(t, req, data, fin, ret) ==
  [t |-> t, req |-> req, data |-> data, fin |-> fin, ret |-> ret]

CountOf(events, t) == Cardinality({i \in 1..Len(events) : events[i].t = t})

requestHandler(events, beh, req) ==
  Append(events, Event("req", View(req), <<>>, FALSE,
                       IF CountOf(events, "req") + 1 = beh.req
                       THEN UPGRADED ELSE USER))

dataHandler(events, beh, data, fin) ==
  Append(events, Event("data", NoRequest, data, fin,
                       IF CountOf(events, "data") + 1 = beh.data
                       THEN TAKEN ELSE USER))

errorHandler(events, beh) ==
  Append(events, Event("err", NoRequest, <<>>, FALSE, beh.err))

\* The value the last invocation returned.
Returned(events) == events[Len(events)].ret

RECURSIVE EmitChunks(_, _, _, _)
EmitChunks(events, beh, chunks, i) ==
  IF i > Len(chunks) THEN events
  ELSE EmitChunks(dataHandler(events, beh, chunks[i], Len(chunks[i]) = 0),
                  beh, chunks, i + 1)

(***************************************************************************)
(* HttpParser::fenceAndConsumePostPadded<CONSUME_MINIMALLY>.  data is the  *)
(* buffer and length its length; the parse starts at offset off of it (the *)
(* fence stays at data[length] while the data pointer advances).  The      *)
(* result: the fenced buffer as the parse left it, the offset reached      *)
(* (consumed.first is the advance), the token (consumed.second), the       *)
(* counter, the events and the last position read.                         *)
(***************************************************************************)
MINIMUM_HTTP_POST_PADDING == 32

\* data[length] = '\r'; data[length + 1] = 'a';
Fenced(data) == data \o <<CR, FENCE_A>>

\* A variant that never sees a handler return another token.
UpgradedNever(returnedUser, user) == FALSE

\* returnedUser != user
Upgraded(returnedUser, user) == returnedUser # user

Fence(buf, off, user, rsb, events, maxRead) ==
  [buf |-> buf, off |-> off, user |-> user, rsb |-> rsb, events |-> events,
   maxRead |-> maxRead]

\* The body that starts right after a head that was handed to the request
\* handler (lines 293-326): [off, rsb, events].
AfterHead(minimal, buf, off, length, req, rsb0, events, beh) ==
  LET Length(rsb, emittable) ==
        IF ~minimal
        THEN [off |-> off + emittable,
              rsb |-> U32Sub(rsb, emittable),
              events |-> dataHandler(events, beh,
                           SubSeq(buf, off + 1, off + emittable),
                           U32Eq(rsb, emittable))]
        ELSE [off |-> off, rsb |-> rsb, events |-> events]
      Counted(rsb) == Length(rsb, U32Min(rsb, length - off))
      Chunked(it) ==
        [off |-> length - Len(it.rest),
         rsb |-> it.state,
         events |-> EmitChunks(events, beh, it.chunks, 1)]
      Body(contentLengthString) ==
        IF Len(contentLengthString) > 0
        THEN Counted(toUnsignedInteger(contentLengthString))
        ELSE IF ~minimal
             THEN Chunked(ChunkIterator(SubSeq(buf, off + 1, length),
                                        STATE_IS_CHUNKED))
             ELSE [off |-> off, rsb |-> STATE_IS_CHUNKED, events |-> events]
  IN  IF getMethod(req) # GET_METHOD
      THEN Body(getHeader(req, CONTENT_LENGTH))
      ELSE \* Still emit an empty data chunk to signal no data
           [off |-> off, rsb |-> rsb0,
            events |-> dataHandler(events, beh, <<>>, TRUE)]

\* One turn of the loop at line 262.  h: what getHeaders returns; m: the
\* last position read; req: the request; ev1: the events after its
\* handler; f1: the state after its body.
RECURSIVE fenceLoop(_, _, _, _)
fenceLoop(minimal, length, beh, f) ==
  IF length - f.off = 0 THEN f
  ELSE
    LET Body(f1) ==
          IF minimal THEN f1 ELSE fenceLoop(minimal, length, beh, f1)
        After(h, m, b) == Body(Fence(h.buf, b.off, USER, b.rsb, b.events, m))
        Handled(h, m, req, ev1) ==
          IF Upgraded(Returned(ev1), USER)
          THEN Fence(h.buf, f.off + h.consumed, Returned(ev1), f.rsb, ev1, m)
          ELSE After(h, m,
                     AfterHead(minimal, h.buf, f.off + h.consumed, length, req,
                               f.rsb, ev1, beh))
        Request(h, m, req) ==
          Handled(h, m, req, requestHandler(f.events, beh, req))
        Got(h) ==
          IF h.consumed = 0
          THEN Fence(h.buf, f.off, USER, f.rsb, f.events,
                     Max(f.maxRead, h.maxRead))
          ELSE Request(h, Max(f.maxRead, h.maxRead), HttpRequest(h.headers))
    IN  Got(getHeaders(f.buf, f.off + 1))

fenceAndConsumePostPadded(minimal, data, off, rsb, events, beh) ==
  fenceLoop(minimal, Len(data), beh,
            Fence(Fenced(data), off, USER, rsb, events, 0))

(***************************************************************************)
(* HttpParser::consumePostPadded.  The result of a call: the parser's      *)
(* fallback and remainingStreamingBytes after it, the events of the call,  *)
(* the token returned, the furthest read of the head parser past the end   *)
(* of a buffer it parsed (C index minus length), whether the window        *)
(* arithmetic of the fallback path wrapped, the number of window bytes     *)
(* that were left unparsed (rest) and the length the fallback buffer had   *)
(* when they were left (base).                                             *)
(***************************************************************************)
MAX_FALLBACK_SIZE == 4096

Result(fb, rsb, events, ret, overread, underflow) ==
  [fallback |-> fb, rsb |-> rsb, events |-> events, ret |-> ret,
   overread |-> overread, underflow |-> underflow, rest |-> 0, base |-> 0]

\* A result of a call that ends with rest window bytes unparsed.
Unparsed(r, rest, base) == [r EXCEPT !.rest = rest, !.base = base]

\* The furthest read past the end of a buffer of the given length.
Overread(f, length) == IF f.maxRead = 0 THEN 0 ELSE (f.maxRead - 1) - length

\* A variant that stashes nothing.
FitsFallbackNever(length) == FALSE

\* A variant that also stashes MAX_FALLBACK_SIZE bytes.
FitsFallbackEqual(length) == length <= MAX_FALLBACK_SIZE

\* length < MAX_FALLBACK_SIZE (line 436)
FitsFallback(length) == length < MAX_FALLBACK_SIZE

\* A variant that copies the whole window.
maxCopyDistanceAll(had, length) == length

\* std::min<size_t>(MAX_FALLBACK_SIZE - fallback.length(), (size_t) length)
maxCopyDistance(had, length) == Min(MAX_FALLBACK_SIZE - had, length)

\* fallback.length() == MAX_FALLBACK_SIZE (line 418)
FallbackFull(fb) == Len(fb) = MAX_FALLBACK_SIZE

\* Lines 427-444: parse fresh heads from offset off of the window, stash
\* what is left.
ParseFresh(fb, rsb, data, off, events, beh, over) ==
  LET Failed(f, o, ev) == Result(fb, f.rsb, ev, Returned(ev), o, FALSE)
      Parsed(f, o, rest) ==
        IF Upgraded(f.user, USER)
        THEN Result(fb, f.rsb, f.events, f.user, o, FALSE)
        ELSE IF rest > 0
        THEN Unparsed(IF FitsFallback(rest)
                      THEN Result(fb \o SubSeq(f.buf, f.off + 1, Len(data)),
                                  f.rsb, f.events, USER, o, FALSE)
                      ELSE Failed(f, o, errorHandler(f.events, beh)),
                      rest, Len(fb))
        ELSE Result(fb, f.rsb, f.events, USER, o, FALSE)
      Fresh(f) ==
        Parsed(f, Max(over, Overread(f, Len(data))), Len(data) - f.off)
  IN  Fresh(fenceAndConsumePostPadded(FALSE, data, off, rsb, events, beh))

\* Lines 355-370 and 399-414: a Content-Length body goes on at offset off
\* of the window.
ResumeLength(fb, rsb, data, off, events, beh, over) ==
  LET Partial(ev) ==
        Result(fb, U32Sub(rsb, Len(data) - off), ev, Returned(ev), over, FALSE)
      Ended(ev) ==
        IF Upgraded(Returned(ev), USER)
        THEN Result(fb, U32Zero, ev, Returned(ev), over, FALSE)
        ELSE ParseFresh(fb, U32Zero, data, off + rsb.lo, ev, beh, over)
  IN  IF U32Ge(rsb, Len(data) - off)
      THEN Partial(dataHandler(events, beh, DropTo(data, off + 1),
                               U32Eq(rsb, Len(data) - off)))
      ELSE Ended(dataHandler(events, beh,
                             SubSeq(data, off + 1, off + rsb.lo), TRUE))

\* Lines 345-351: a chunked body goes on in the window.
ResumeChunked(fb, rsb, data, beh) ==
  LET Decoded(it) ==
        ParseFresh(fb, it.state, data, Len(data) - Len(it.rest),
                   EmitChunks(<<>>, beh, it.chunks, 1), beh, 0)
  IN  Decoded(ChunkIterator(data, rsb))

(***************************************************************************)
(* Lines 394-395 with consumed.first < had.  consumed.first - had is an    *)
(* unsigned int and wraps to 2^32 - (had - consumed.first): data moves     *)
(* that many bytes past the start of the window (pointers have 64 bits),   *)
(* out of the window and its padding, and length becomes the window's      *)
(* length plus had - consumed.first.  The behaviour is undefined.  What    *)
(* follows depends on the memory at the wild pointer: it is not mapped, or *)
(* it holds some bytes.  Where it is not mapped the data handler is still  *)
(* given a view of it (lines 400 and 404 do not read it) and the call dies *)
(* at the fence of line 427; where it is mapped the call goes on over      *)
(* those bytes as it would over a window.                                  *)
(***************************************************************************)
\* The byte of a view that is not readable.
WILD == 0 - 1
Wild(n) == [j \in 1..n |-> WILD]

\* The call never returns: the process died of a memory fault.
SIGSEGV == "sigsegv"

\* What mapped memory at the wild pointer may hold in length bytes: zero
\* bytes, or a head followed by zero bytes.
\* "GET / HTTP/1.1\r\n\r\n"
WildHead ==
  <<71, 69, 84, 32, 47, 32, 72, 84, 84, 80, 47, 49, 46, 49, 13, 10, 13, 10>>
WildMemory(length) ==
  {[j \in 1..length |-> 0]}
    \cup (IF length >= Len(WildHead)
          THEN {WildHead \o [j \in 1..(length - Len(WildHead)) |-> 0]}
          ELSE {})

\* The wild pointer is not mapped: lines 397-414 hand its views to the
\* data handler, line 427 writes the fence and dies.
WildUnmapped(rsb, length, events, beh, over) ==
  LET Died(ev) == Result(<<>>, U32Zero, ev, SIGSEGV, over, TRUE)
      Partial(ev) ==
        Result(<<>>, U32Sub(rsb, length), ev, Returned(ev), over, TRUE)
      Ended(ev) ==
        IF Upgraded(Returned(ev), USER)
        THEN Result(<<>>, U32Zero, ev, Returned(ev), over, TRUE)
        ELSE Died(ev)
  IN  IF U32IsZero(rsb) THEN Died(events)
      ELSE IF U32Ge(rsb, length)
      THEN Partial(dataHandler(events, beh, Wild(length),
                               U32Eq(rsb, length)))
      ELSE Ended(dataHandler(events, beh, Wild(rsb.lo), TRUE))

\* The outcomes of a call whose window arithmetic wrapped.
WildWindow(rsb, length, events, beh, over) ==
  LET Wrapped(r) == [r EXCEPT !.underflow = TRUE]
  IN  {WildUnmapped(rsb, length, events, beh, over)}
        \cup {Wrapped(IF ~U32IsZero(rsb)
                      THEN ResumeLength(<<>>, rsb, mem, 0, events, beh, over)
                      ELSE ParseFresh(<<>>, rsb, mem, 0, events, beh, over)) :
                mem \in WildMemory(length)}

\* Lines 373-425: the head that the fallback buffer holds goes on.  The
\* outcomes of the call: one, unless the window arithmetic wraps.
DrainFallback(fb, rsb, data, beh) ==
  LET had == Len(fb)
      Failed(f, fb2, over, ev) ==
        Result(fb2, f.rsb, ev, Returned(ev), over, FALSE)
      Parsed(f, fb2, over) ==
        IF Upgraded(f.user, USER)
        THEN {Result(fb2, f.rsb, f.events, f.user, over, FALSE)}
        ELSE IF f.off > 0
        THEN IF f.off < had
             THEN WildWindow(f.rsb, Len(data) + (had - f.off), f.events, beh,
                             over)
             ELSE IF ~U32IsZero(f.rsb)
             THEN {ResumeLength(<<>>, f.rsb, data, f.off - had, f.events,
                                beh, over)}
             ELSE {ParseFresh(<<>>, f.rsb, data, f.off - had, f.events, beh,
                              over)}
        ELSE {Unparsed(IF FallbackFull(fb2)
                       THEN Failed(f, fb2, over, errorHandler(f.events, beh))
                       ELSE Result(fb2, f.rsb, f.events, USER, over, FALSE),
                       Len(data), had)}
      Fenced1(fb1, f) ==
        Parsed(f, SubSeq(f.buf, 1, Len(fb1)), Overread(f, Len(fb1)))
      Appended(fb1) ==
        Fenced1(fb1, fenceAndConsumePostPadded(TRUE, fb1, 0, rsb, <<>>, beh))
  IN  Appended(fb \o SubSeq(data, 1, maxCopyDistance(had, Len(data))))

\* The outcomes of a call: one, unless its behaviour is undefined.
consumePostPadded(fb, rsb, data, beh) ==
  IF ~U32IsZero(rsb)
  THEN IF isParsingChunkedEncoding(rsb)
       THEN {ResumeChunked(fb, rsb, data, beh)}
       ELSE {ResumeLength(fb, rsb, data, 0, <<>>, beh, 0)}
  ELSE IF Len(fb) > 0
  THEN DrainFallback(fb, rsb, data, beh)
  ELSE {ParseFresh(fb, rsb, data, 0, <<>>, beh, 0)}

\* The outcome of a call that has one.
Outcome(outcomes) == CHOOSE r \in outcomes : TRUE

(***************************************************************************)
(* The connections.  A stream is the bytes one connection carries, with    *)
(* the entity bodies of its requests when it is a sequence of valid        *)
(* requests, and the positions at which the transport may end a window.    *)
(***************************************************************************)
\* "GET /a?b=1 HTTP/1.1\r\nHost: x\r\n\r\n"
GetQuery ==
  <<71, 69, 84, 32, 47, 97, 63, 98, 61, 49, 32, 72, 84, 84, 80, 47, 49, 46,
    49, 13, 10, 72, 111, 115, 116, 58, 32, 120, 13, 10, 13, 10>>
\* "GET / HTTP/1.1\r\n\r\n"
Get == <<71, 69, 84, 32, 47, 32, 72, 84, 84, 80, 47, 49, 46, 49, 13, 10, 13, 10>>
\* "POST / HTTP/1.0\r\nContent-Length: 5\r\n\r\n"
PostLength ==
  <<80, 79, 83, 84, 32, 47, 32, 72, 84, 84, 80, 47, 49, 46, 48, 13, 10, 67,
    111, 110, 116, 101, 110, 116, 45, 76, 101, 110, 103, 116, 104, 58, 32,
    53, 13, 10, 13, 10>>
\* "ABCDE"
Abcde == <<65, 66, 67, 68, 69>>
\* "POST / HTTP/1.1\r\nCONTENT-LENGTH: 0\r\n\r\n"
PostLengthZero ==
  <<80, 79, 83, 84, 32, 47, 32, 72, 84, 84, 80, 47, 49, 46, 49, 13, 10, 67,
    79, 78, 84, 69, 78, 84, 45, 76, 69, 78, 71, 84, 72, 58, 32, 48, 13, 10,
    13, 10>>
\* "POST /u HTTP/1.1\r\nTransfer-Encoding: chunked\r\n\r\n"
PostChunked ==
  <<80, 79, 83, 84, 32, 47, 117, 32, 72, 84, 84, 80, 47, 49, 46, 49, 13, 10,
    84, 114, 97, 110, 115, 102, 101, 114, 45, 69, 110, 99, 111, 100, 105,
    110, 103, 58, 32, 99, 104, 117, 110, 107, 101, 100, 13, 10, 13, 10>>
\* "3\r\nfoo\r\n0\r\n\r\n"
FooChunked == <<51, 13, 10, 102, 111, 111, 13, 10, 48, 13, 10, 13, 10>>
\* "foo"
Foo == <<102, 111, 111>>
\* "GET / HTTP/1.1\r\nBad\rLine\r\n\r\n"
BadLine ==
  <<71, 69, 84, 32, 47, 32, 72, 84, 84, 80, 47, 49, 46, 49, 13, 10, 66, 97,
    100, 13, 76, 105, 110, 101, 13, 10, 13, 10>>
\* "GET / HTTP/1.1\r\nX-Pad: "
PadStart ==
  <<71, 69, 84, 32, 47, 32, 72, 84, 84, 80, 47, 49, 46, 49, 13, 10, 88, 45,
    80, 97, 100, 58, 32>>
\* A GET head of the given total length: one header padded with 'a'.
PaddedGet(total) ==
  PadStart \o [i \in 1..(total - (Len(PadStart) + 4)) |-> 97]
           \o <<CR, LF, CR, LF>>

\* "GET / HTTP/1.1\r\n"
GetLine == <<71, 69, 84, 32, 47, 32, 72, 84, 84, 80, 47, 49, 46, 49, 13, 10>>
\* A header line as it is written on the wire: name, ": ", value, CR LF.
HeaderLine(h) == h.key \o <<COLON, SPACE>> \o h.value \o <<CR, LF>>
RECURSIVE HeaderLines(_, _)
HeaderLines(hs, k) ==
  IF k > Len(hs) THEN <<>> ELSE HeaderLine(hs[k]) \o HeaderLines(hs, k + 1)
\* A head: a request line, header lines and the empty line.
HeadOf(line, hs) == line \o HeaderLines(hs, 1) \o <<CR, LF>>

\* "Host: x", "X_Id: 1", "HOST: y"
NamesHeaders ==
  <<Header(<<72, 111, 115, 116>>, <<120>>),
    Header(<<88, 95, 73, 100>>, <<49>>),
    Header(<<72, 79, 83, 84>>, <<121>>)>>

\* A request line as it is written on the wire.
RequestLine(method, target, version) ==
  method \o <<SPACE>> \o target \o <<SPACE>> \o version \o <<CR, LF>>
\* A GET for a target, without header lines.
GetOf(target) ==
  HeadOf(RequestLine(<<71, 69, 84>>, target.path,
                     <<72, 84, 84, 80, 47, 49, 46>> \o <<target.minor>>),
         <<>>)
\* "/a?b?c" (HTTP/1.1), "/a?" (HTTP/1.1), "/x" (HTTP/1.0)
Targets ==
  <<[path |-> <<47, 97, 63, 98, 63, 99>>, minor |-> 49],
    [path |-> <<47, 97, 63>>, minor |-> 49],
    [path |-> <<47, 120>>, minor |-> ZERO]>>

\* "POST / HTTP/1.1\r\nContent-Length: <digits>\r\n\r\n"
PostOf(digits) ==
  HeadOf(RequestLine(<<80, 79, 83, 84>>, <<47>>,
                     <<72, 84, 84, 80, 47, 49, 46, 49>>),
         <<Header(<<67, 111, 110, 116, 101, 110, 116, 45, 76, 101, 110, 103,
                    116, 104>>, digits)>>)
\* "1073741824": 2^30
TwoTo30Digits == <<49, 48, 55, 51, 55, 52, 49, 56, 50, 52>>
\* "4294967296": 2^32
TwoTo32Digits == <<52, 50, 57, 52, 57, 54, 55, 50, 57, 54>>

\* A GET with n header lines "A: b".
ManyHeaders(n) == [k \in 1..n |-> Header(<<65>>, <<98>>)]
GetWith(n) == HeadOf(GetLine, ManyHeaders(n))

\* How far past MAX_FALLBACK_SIZE the long heads reach.
Slack == 2

Stream(bytes, valid, bodies, cuts) ==
  [bytes |-> bytes, valid |-> valid, bodies |-> bodies, cuts |-> cuts]

\* Two pipelined GETs, the first with a query and a header.
StreamGets == Stream(GetQuery \o Get, TRUE, <<<<>>, <<>>>>, 1..50)
\* Three pipelined GETs; windows end at every position of the first two
\* heads, inside and at the end of the third.
StreamPipeline ==
  Stream(Get \o GetQuery \o Get, TRUE, <<<<>>, <<>>, <<>>>>,
         (1..50) \cup {59, 68})
\* A GET with header names in mixed case, one of them with an underscore;
\* windows end in the request line, in a value, in a name and at the end.
StreamNamed ==
  Stream(HeadOf(GetLine, NamesHeaders), TRUE, <<<<>>>>, {5, 23, 27, 45})
\* Three GETs whose targets have two '?', a '?' at the end and none;
\* windows end inside the first two targets and at the end of each head.
StreamTargets ==
  Stream(GetOf(Targets[1]) \o GetOf(Targets[2]) \o GetOf(Targets[3]), TRUE,
         <<<<>>, <<>>, <<>>>>, {7, 23, 29, 43, 62})
\* The start of a body of 2^30 bytes and of one of 2^32 bytes; windows
\* end after the first byte, at the end of the head and after five bytes
\* of the body.
StreamHuge ==
  Stream(PostOf(TwoTo30Digits) \o Abcde, TRUE, <<>>,
         {1, Len(PostOf(TwoTo30Digits)), Len(PostOf(TwoTo30Digits)) + 5})
StreamWrap ==
  Stream(PostOf(TwoTo32Digits) \o Abcde, TRUE, <<>>,
         {1, Len(PostOf(TwoTo32Digits)), Len(PostOf(TwoTo32Digits)) + 5})
\* A GET with as many header lines as fit, MAX_HEADERS - 2, and one with
\* one more; windows end after the first byte, after 100 bytes and at the
\* end.
StreamFits ==
  Stream(GetWith(MAX_HEADERS - 2), TRUE, <<<<>>>>,
         {1, 100, Len(GetWith(MAX_HEADERS - 2))})
StreamTooMany ==
  Stream(GetWith(MAX_HEADERS - 1), FALSE, <<>>,
         {1, 100, Len(GetWith(MAX_HEADERS - 1))})
\* A Content-Length body, then a GET.
StreamLength ==
  Stream(PostLength \o Abcde \o Get, TRUE, <<Abcde, <<>>>>, 1..61)
\* A Content-Length of 0, then a GET.
StreamLengthZero ==
  Stream(PostLengthZero \o Get, TRUE, <<<<>>, <<>>>>, 1..56)
\* A chunked body, then a GET.
StreamChunked ==
  Stream(PostChunked \o FooChunked \o Get, TRUE, <<Foo, <<>>>>, 1..79)
\* A malformed head: a CR that no LF follows.
StreamBad == Stream(BadLine, FALSE, <<>>, 1..28)
\* A head of exactly MAX_FALLBACK_SIZE bytes, then a GET.
StreamFull ==
  Stream(PaddedGet(MAX_FALLBACK_SIZE) \o Get, TRUE, <<<<>>, <<>>>>,
         {1, MAX_FALLBACK_SIZE - 1, MAX_FALLBACK_SIZE, MAX_FALLBACK_SIZE + 1,
          MAX_FALLBACK_SIZE + 18})
\* A head longer than MAX_FALLBACK_SIZE.
StreamOver ==
  Stream(PaddedGet(MAX_FALLBACK_SIZE + Slack), TRUE, <<<<>>>>,
         {1, Len(PadStart)}
           \cup ((MAX_FALLBACK_SIZE - 1)..(MAX_FALLBACK_SIZE + Slack)))

StreamNames ==
  {"gets", "length", "length0", "chunked", "bad", "full", "over"}

\* The streams that vary the shape of the head.
HeadStreamNames ==
  {"pipeline", "names", "targets", "huge", "wrap", "fits", "toomany"}

StreamOf(name) ==
  CASE name = "gets" -> StreamGets
    [] name = "pipeline" -> StreamPipeline
    [] name = "names" -> StreamNamed
    [] name = "targets" -> StreamTargets
    [] name = "huge" -> StreamHuge
    [] name = "wrap" -> StreamWrap
    [] name = "fits" -> StreamFits
    [] name = "toomany" -> StreamTooMany
    [] name = "length" -> StreamLength
    [] name = "length0" -> StreamLengthZero
    [] name = "chunked" -> StreamChunked
    [] name = "bad" -> StreamBad
    [] name = "full" -> StreamFull
    [] name = "over" -> StreamOver

(***************************************************************************)
(* The observations of a connection: the events of its calls in order,     *)
(* with the data slices that belong together joined (a slice without fin   *)
(* and the slice after it), so that two ways of cutting the same bytes     *)
(* into windows can be compared.                                           *)
(***************************************************************************)
Entry(t, req, data, fin) == [t |-> t, req |-> req, data |-> data, fin |-> fin]

Observe(log, e) ==
  LET n == Len(log) IN
  IF e.t = "data" /\ n > 0 /\ log[n].t = "data" /\ ~log[n].fin
  THEN [log EXCEPT ![n] = Entry("data", NoRequest, log[n].data \o e.data, e.fin)]
  ELSE Append(log, Entry(e.t, e.req, e.data, e.fin))

RECURSIVE ObserveAll(_, _, _)
ObserveAll(log, events, i) ==
  IF i > Len(events) THEN log
  ELSE ObserveAll(Observe(log, events[i]), events, i + 1)

\* Every handler invocation returned the token it received.
AllReturnUser(events) == \A i \in 1..Len(events) : events[i].ret = USER

(***************************************************************************)
(* The state: the parser (fallback, remainingStreamingBytes), the          *)
(* connection it serves (stream; pos: the bytes fed so far), the history   *)
(* of the connection (live: no call returned another token, no handler     *)
(* took the connection over and the window arithmetic never wrapped;       *)
(* handoffs: the calls in which a call or a handler returned another       *)
(* token), the observations (log) and the last call.                       *)
(***************************************************************************)
VARIABLES fallback, remainingStreamingBytes, stream, pos, live, handoffs,
          log, last, currentParameters, parameter

vars ==
  <<fallback, remainingStreamingBytes, stream, pos, live, handoffs, log, last,
    currentParameters, parameter>>

\* HttpRequest::currentParameters: std::pair<int, std::string_view *>.  The
\* array is the elements its owner supplied.  The pair of a request that
\* was handed none is value-initialised, (0, nullptr): its pointer is null
\* and points at no element.
Parameters(first, second) ==
  [first |-> first, second |-> second, null |-> FALSE]
NoParameters == [first |-> 0, second |-> <<>>, null |-> TRUE]

\* What the last getParameter call on the current pair was asked and
\* returned; past: it read the array past its supplied elements; died: the
\* read faulted and the call never returned.
Parameter(index, value, past, died) ==
  [called |-> TRUE, index |-> index, value |-> value, past |-> past,
   died |-> died]
NoParameter ==
  [called |-> FALSE, index |-> 0, value |-> <<>>, past |-> FALSE,
   died |-> FALSE]

\* The driver goes on feeding the parser after that many hand-offs (the
\* cancellation rule speaks of "a subsequent call (if any)"), and stops at
\* the next one.
MaxHandOffs == 1

\* The invocations of a call that may return another token.
MaxCancel == 2

\* In one call at most one handler returns another token: a request
\* handler invocation, a data handler invocation, or none; the error
\* handler returns CLOSED, or USER.
Behaviours ==
  {[req |-> r, data |-> 0, err |-> CLOSED] : r \in 0..MaxCancel}
    \cup {[req |-> 0, data |-> d, err |-> CLOSED] : d \in 1..MaxCancel}
    \cup {[req |-> 0, data |-> 0, err |-> USER]}

NoBehaviour == [req |-> 0, data |-> 0, err |-> CLOSED]

\* What a call did with the window bytes it left unparsed: whether there
\* were any, whether they were fewer than MAX_FALLBACK_SIZE, whether the
\* fallback buffer held bytes before them, whether it grew by all of them
\* and whether it did not grow at all.
Leftover(rest, base, after) ==
  [unparsed |-> rest > 0, below |-> rest < MAX_FALLBACK_SIZE,
   carried |-> base > 0, appended |-> after = base + rest,
   untouched |-> after = base]

\* What the model keeps of a call: whether it was the first call of the
\* connection, whether it began with no body in progress and an empty
\* fallback buffer, its events, the token it returned, its overread, and
\* what it did with the window bytes it left unparsed.
Call(first, fresh, r) ==
  [called |-> TRUE, first |-> first, fresh |-> fresh,
   events |-> r.events, ret |-> r.ret, overread |-> r.overread,
   underflow |-> r.underflow,
   tail |-> Leftover(r.rest, r.base, Len(r.fallback))]

NoCall ==
  [called |-> FALSE, first |-> FALSE, fresh |-> FALSE, events |-> <<>>,
   ret |-> USER, overread |-> 0, underflow |-> FALSE, tail |-> Leftover(0, 0, 0)]

Init ==
  /\ fallback = <<>>
  /\ remainingStreamingBytes = U32Zero
  /\ stream \in StreamNames
  /\ pos = 0
  /\ live = TRUE
  /\ handoffs = 0
  /\ log = <<>>
  /\ last = NoCall
  /\ currentParameters = NoParameters
  /\ parameter = NoParameter

\* The bytes of the connection.
Bytes == StreamOf(stream).bytes

\* A call in which the call or a handler returned another token.
HandedOff(r) == ~(r.ret \in {USER, SIGSEGV} /\ AllReturnUser(r.events))

\* One receive event: the driver hands the next window of the connection,
\* the bytes from pos up to the cut to, to consumePostPadded, and the call
\* has one of its outcomes.  Where the window arithmetic wrapped, the data
\* pointer has left the window (or the process has died) and the model
\* follows the connection no further.
Consume(to, beh) ==
  /\ handoffs <= MaxHandOffs
  /\ ~last.underflow
  /\ to > pos
  /\ \E r \in consumePostPadded(fallback, remainingStreamingBytes,
                                 SubSeq(Bytes, pos + 1, to), beh) :
       /\ fallback' = r.fallback
       /\ remainingStreamingBytes' = r.rsb
       /\ pos' = to
       /\ live' = (live /\ ~HandedOff(r) /\ ~r.underflow)
       /\ handoffs' = IF HandedOff(r) THEN handoffs + 1 ELSE handoffs
       /\ log' = ObserveAll(log, r.events, 1)
       /\ last' = Call(pos = 0,
                       Len(fallback) = 0 /\ U32IsZero(remainingStreamingBytes),
                       r)
  /\ UNCHANGED <<stream, currentParameters, parameter>>

Next ==
  \E to \in StreamOf(stream).cuts :
    \E beh \in Behaviours : Consume(to, beh)

Spec == Init /\ [][Next]_vars

\* The same parser fed the streams that vary the shape of the head.
InitHeads ==
  /\ fallback = <<>>
  /\ remainingStreamingBytes = U32Zero
  /\ stream \in HeadStreamNames
  /\ pos = 0
  /\ live = TRUE
  /\ handoffs = 0
  /\ log = <<>>
  /\ last = NoCall
  /\ currentParameters = NoParameters
  /\ parameter = NoParameter

SpecHeads == InitHeads /\ [][Next]_vars

(***************************************************************************)
(* The route parameters of a request.  A router hands the request a pair   *)
(* (first, array) and the application reads parameters by index.  The      *)
(* pairs drawn are those whose array holds first elements (first read as   *)
(* a count) and those whose array holds first + 1 elements (first read as  *)
(* the index of the last one, -1 for none).                                *)
(***************************************************************************)
MaxParameters == 3

\* "a", "b"
ParameterViews == {<<97>>, <<98>>}
EmptyView == <<>>

ParameterArrays ==
  UNION {[1..n -> ParameterViews] : n \in 0..MaxParameters}

ParameterPairs ==
  {Parameters(first, array) :
     first \in (0 - 1)..MaxParameters, array \in ParameterArrays}

\* currentParameters.first < (int) index
ParameterOutOfRange(first, index) == first < index

setParameters(parameters) ==
  /\ ~parameter.died
  /\ Len(parameters.second) \in {parameters.first, parameters.first + 1}
  /\ currentParameters' = parameters
  /\ parameter' = NoParameter
  /\ UNCHANGED <<fallback, remainingStreamingBytes, stream, pos, live,
                 handoffs, log, last>>

\* currentParameters.second[index]: the element when it was supplied.
\* The read of an element that was not supplied, past the array or
\* through the null pointer, is undefined: it faults and the process dies,
\* or the call returns (the read of a result that is not used may be
\* dropped) with whatever view the build makes of it.
getParameter(index) ==
  /\ ~parameter.died
  /\ IF ParameterOutOfRange(currentParameters.first, index)
     THEN parameter' = Parameter(index, EmptyView, FALSE, FALSE)
     ELSE IF index < Len(currentParameters.second)
          THEN parameter' =
                 Parameter(index, currentParameters.second[index + 1], FALSE,
                           FALSE)
          ELSE \/ parameter' = Parameter(index, EmptyView, TRUE, TRUE)
               \/ \E view \in ParameterViews \cup {EmptyView} :
                    parameter' = Parameter(index, view, TRUE, FALSE)
  /\ UNCHANGED <<fallback, remainingStreamingBytes, stream, pos, live,
                 handoffs, log, last, currentParameters>>

InitParameters ==
  /\ fallback = <<>>
  /\ remainingStreamingBytes = U32Zero
  /\ stream = "gets"
  /\ pos = 0
  /\ live = TRUE
  /\ handoffs = 0
  /\ log = <<>>
  /\ last = NoCall
  /\ currentParameters = NoParameters
  /\ parameter = NoParameter

NextParameters ==
  \/ \E parameters \in ParameterPairs : setParameters(parameters)
  \/ \E index \in 0..(MaxParameters + 1) : getParameter(index)

SpecParameters == InitParameters /\ [][NextParameters]_vars

(***************************************************************************)
(* What the claims speak of.                                               *)
(***************************************************************************)
Bodies == StreamOf(stream).bodies

\* Every byte of a connection of valid requests has been fed, no handler
\* returned another token and no call reported an error.
NoError == \A i \in 1..Len(log) : log[i].t # "err"
ValidStream == live /\ StreamOf(stream).valid /\ NoError
ValidStreamDone == ValidStream /\ pos = Len(Bytes)

\* The observations of the whole stream fed to a fresh parser in one call.
WholeLog ==
  ObserveAll(<<>>,
             Outcome(consumePostPadded(<<>>, U32Zero, Bytes,
                                       NoBehaviour)).events, 1)

\* The positions of the request-handler entries of the log, and the k-th.
Requests == {i \in 1..Len(log) : log[i].t = "req"}
RequestAt(k) ==
  CHOOSE i \in Requests : Cardinality({j \in Requests : j <= i}) = k
\* The entries after the request entry at i that belong to its request.
GroupEnd(i) ==
  IF \E j \in Requests : j > i
  THEN Least({j \in Requests : j > i}) - 1
  ELSE Len(log)

RECURSIVE Concat(_, _, _)
Concat(i, j, acc) ==
  IF i > j THEN acc
  ELSE Concat(i + 1, j, IF log[i].t = "data" THEN acc \o log[i].data ELSE acc)

\* The bytes the data handler received for the request whose entry is at i.
BodyOf(i) == Concat(i + 1, GroupEnd(i), <<>>)

\* The positions of the events of the last call a given handler received.
LastEvents(t) == {i \in 1..Len(last.events) : last.events[i].t = t}

\* The buffer holds no complete valid head.
IncompleteHead(fb) == getHeaders(Fenced(fb), 1).consumed = 0

(***************************************************************************)
(* C1 (fragmentation invariance): once every byte of a stream of valid     *)
(* requests has been fed, in whatever windows, with every handler          *)
(* returning the token it received, the observations (request views, the   *)
(* data of each request joined, the place of fin) are those of the whole   *)
(* stream fed in one call.  The code breaks this: see C6 and C17.          *)
(***************************************************************************)
C1_FragmentationInvariance == ValidStreamDone => log = WholeLog

(***************************************************************************)
(* C2 (body byte conservation): once every byte of a stream of valid       *)
(* requests has been fed, the data slices of each request that was         *)
(* handed to the request handler, joined, are the entity body of that      *)
(* request.  The code breaks this for a chunked body whose head was        *)
(* completed from the fallback buffer: see C17.                            *)
(***************************************************************************)
C2_BodyConservation ==
  ValidStreamDone =>
    \A k \in 1..Cardinality(Requests) :
      k <= Len(Bodies) /\ BodyOf(RequestAt(k)) = Bodies[k]

(***************************************************************************)
(* C3 (callback ordering): while handlers return the token they received   *)
(* and no error is reported, no data precedes the first request handler,   *)
(* no data of a request follows its fin, a request handler fires only      *)
(* after the fin of the request before it (if that one got data at all),   *)
(* and at the end of a stream of valid requests each request has fired     *)
(* its handler once and the last data call had fin.  The code breaks this  *)
(* after a chunked head completed from the fallback buffer: see C17.       *)
(***************************************************************************)
C3_CallbackOrdering ==
  ValidStream =>
    /\ Len(log) > 0 => log[1].t = "req"
    /\ \A i \in 1..(Len(log) - 1) :
         /\ (log[i].t = "data" /\ log[i].fin) => log[i + 1].t = "req"
         /\ (log[i].t = "data" /\ log[i + 1].t = "req") => log[i].fin
    /\ pos = Len(Bytes) =>
         /\ Cardinality(Requests) = Len(Bodies)
         /\ log[Len(log)].t = "data" => log[Len(log)].fin

(***************************************************************************)
(* C4 (cancellation by the request handler): when a request-handler        *)
(* invocation returns another token, it is the last event of the call and  *)
(* the call returns that token.                                            *)
(***************************************************************************)
C4_RequestCancellation ==
  \A i \in LastEvents("req") :
    last.events[i].ret # USER =>
      i = Len(last.events) /\ last.ret = last.events[i].ret

\* C4, its case: a head completed from the fallback buffer, whose request
\* handler returned another token.
C4_Witness ==
  /\ last.called /\ ~last.fresh /\ Len(fallback) > 0
  /\ Len(last.events) > 0 /\ Returned(last.events) = UPGRADED

(***************************************************************************)
(* C5 (hand-off by the data handler), as claimed: when a data-handler      *)
(* invocation returns another token, it is the last event of the call and  *)
(* the call returns that token.  The code ignores the value the data       *)
(* handler returns at lines 300, 315, 325 and 348.                         *)
(***************************************************************************)
C5_DataHandOff ==
  \A i \in LastEvents("data") :
    last.events[i].ret # USER =>
      i = Len(last.events) /\ last.ret = last.events[i].ret

(***************************************************************************)
(* C6 (data handler at least once per request), as claimed: once every     *)
(* byte of a stream of valid requests has been fed, every request handed   *)
(* to the request handler has data entries, the last with fin.  The code   *)
(* emits nothing for a Content-Length of 0 whose head was completed from   *)
(* the fallback buffer.                                                    *)
(***************************************************************************)
C6_DataAtLeastOnce ==
  ValidStreamDone =>
    \A i \in Requests :
      /\ GroupEnd(i) > i
      /\ log[GroupEnd(i)].t = "data" /\ log[GroupEnd(i)].fin

(***************************************************************************)
(* C7 (malformed head is reported), as claimed: the first call of a        *)
(* connection, given the malformed head of scenario S6 whole, invokes the  *)
(* error handler and returns its value.                                    *)
(***************************************************************************)
C7_MalformedReported ==
  (stream = "bad" /\ last.called /\ last.first /\ pos = Len(BadLine)) =>
    /\ LastEvents("err") # {}
    /\ last.ret = Returned(last.events)

(***************************************************************************)
(* C7, amended: a malformed head is treated as an incomplete one.  The     *)
(* calls that feed it invoke no handler and return the token passed in,    *)
(* and the bytes stay in the fallback buffer (keys lower-cased); the error *)
(* handler is invoked, and its value returned, only by a call that leaves  *)
(* MAX_FALLBACK_SIZE bytes or more without a complete head.                *)
(***************************************************************************)
C7_MalformedStashed ==
  /\ (stream = "bad" /\ last.called) =>
       /\ last.events = <<>> /\ last.ret = USER
       /\ Len(fallback) = pos
       /\ \A i \in 1..pos : fallback[i] \in {Bytes[i], Or32(Bytes[i])}
  /\ LastEvents("err") # {} =>
       /\ pos >= MAX_FALLBACK_SIZE
       /\ last.ret = Returned(last.events)

\* C7, its case: the malformed head of S6, whole, in the first window.
C7_Witness ==
  stream = "bad" /\ last.called /\ last.first /\ pos = Len(BadLine)

(***************************************************************************)
(* C8 (fallback bound): the fallback buffer never holds more than          *)
(* MAX_FALLBACK_SIZE bytes.                                                *)
(***************************************************************************)
C8_FallbackBound == Len(fallback) <= MAX_FALLBACK_SIZE

\* C8, its case: a call that found bytes in the fallback buffer filled it
\* to the cap.
C8_Witness ==
  last.called /\ ~last.fresh /\ Len(fallback) = MAX_FALLBACK_SIZE

(***************************************************************************)
(* C9 (body/fallback mutual exclusion), as claimed: after every call at    *)
(* most one of fallback.length() and remainingStreamingBytes is non-zero,  *)
(* and a non-empty fallback buffer holds an incomplete head.  The code     *)
(* breaks the second part: when the request handler returns another token  *)
(* for a head completed from the fallback buffer, the call returns at line *)
(* 385, before fallback.clear() at line 393, and the buffer keeps the head *)
(* that was just handed over.                                              *)
(***************************************************************************)
C9_MutualExclusion ==
  last.called =>
    /\ Len(fallback) = 0 \/ U32IsZero(remainingStreamingBytes)
    /\ Len(fallback) > 0 => IncompleteHead(fallback)

(***************************************************************************)
(* C10 (no overread), as claimed: head parsing reads no byte at an index   *)
(* greater than length+1 of the buffer it parses.                          *)
(***************************************************************************)
C10_NoOverread == last.called => last.overread <= 1

(***************************************************************************)
(* C10, amended: head parsing reads no byte at an index greater than       *)
(* length+7 of the buffer it parses (find_cr reads whole 8-byte words, the *)
(* last of them the word that begins at the fence), which is inside the    *)
(* MINIMUM_HTTP_POST_PADDING bytes the caller provides.                    *)
(***************************************************************************)
C10_OverreadInPadding ==
  last.called =>
    /\ last.overread <= WORD - 1
    /\ last.overread < MINIMUM_HTTP_POST_PADDING

\* C10, its case: a value that begins where the window ends, so that the
\* word find_cr reads begins at the fence.
C10_Witness == last.called /\ last.overread = WORD - 1

\* The last call ended because a request or data handler returned another
\* token, which the call returned.
Cancelled ==
  /\ Len(last.events) > 0
  /\ last.events[Len(last.events)].t \in {"req", "data"}
  /\ Returned(last.events) # USER
  /\ last.ret = Returned(last.events)

\* The two outcomes of the stash step: the unparsed bytes are stashed and
\* the token passed in is returned, or the error handler decides.
Stashed ==
  /\ last.tail.appended
  /\ last.ret = USER
  /\ LastEvents("err") = {}
Overflowed ==
  /\ LastEvents("err") = {Len(last.events)}
  /\ last.ret = Returned(last.events)

(***************************************************************************)
(* C11 (stash or overflow), as claimed: a call that was not cancelled and  *)
(* left window bytes unparsed either left fewer than MAX_FALLBACK_SIZE,    *)
(* appended them to the fallback buffer and returned the token passed in,  *)
(* or left MAX_FALLBACK_SIZE or more, invoked the error handler, returned  *)
(* its value and appended nothing.                                         *)
(***************************************************************************)
C11_StashOrOverflow ==
  (last.called /\ ~Cancelled /\ last.tail.unparsed) =>
    \/ last.tail.below /\ Stashed
    \/ ~last.tail.below /\ Overflowed /\ last.tail.untouched

(***************************************************************************)
(* C11, amended: the claim holds of the stash step (lines 432-441), which  *)
(* a call reaches with an empty fallback buffer.  A call that found bytes  *)
(* in the fallback buffer and completed no head with them has appended     *)
(* min(MAX_FALLBACK_SIZE - fallback.length(), length) bytes of the window; *)
(* it invokes the error handler and returns its value when the buffer is   *)
(* then full, however few bytes the window held, and otherwise has         *)
(* appended the whole window and returns the token passed in.              *)
(***************************************************************************)
C11_StashStep ==
  (last.called /\ ~Cancelled /\ last.tail.unparsed) =>
    IF last.tail.carried
    THEN \/ Len(fallback) < MAX_FALLBACK_SIZE /\ Stashed
         \/ Len(fallback) = MAX_FALLBACK_SIZE /\ Overflowed
    ELSE \/ last.tail.below /\ Stashed
         \/ ~last.tail.below /\ Overflowed /\ last.tail.untouched

\* C11, its case: a window that leaves MAX_FALLBACK_SIZE bytes or more
\* unparsed at the stash step.
C11_Witness ==
  /\ last.called /\ last.tail.unparsed /\ ~last.tail.carried
  /\ ~last.tail.below /\ Overflowed

\* The heads of the streams that are back-to-back complete GET requests.
GetStreams == {"pipeline"}
GetsOf(name) == <<Get, GetQuery, Get>>
\* What the request handler is shown of a head that arrives alone.
Alone(head) ==
  View(Outcome(consumePostPadded(<<>>, U32Zero, head,
                                 NoBehaviour)).events[1].req)

\* The empty slice with fin = true.
EmptyFin(e) == e.t = "data" /\ e.data = <<>> /\ e.fin

(***************************************************************************)
(* C12 (pipelining): once the n back-to-back complete GET requests of a    *)
(* stream have been fed, in whatever windows and so also when the first    *)
(* one is completed from the fallback buffer, the request handler has been *)
(* invoked n times, in wire order, each invocation immediately followed by *)
(* exactly one data-handler invocation with an empty slice and fin = true; *)
(* remainingStreamingBytes is 0 and the fallback buffer is empty.  In      *)
(* every call on the way the invocations come in such pairs.               *)
(***************************************************************************)
C12_Pipelining ==
  (live /\ stream \in GetStreams) =>
    /\ \A i \in 1..Len(last.events) :
         /\ last.events[i].t = "req" =>
              i < Len(last.events) /\ EmptyFin(last.events[i + 1])
         /\ last.events[i].t # "req" =>
              i > 1 /\ last.events[i - 1].t = "req" /\ EmptyFin(last.events[i])
    /\ pos = Len(Bytes) =>
         /\ Len(log) = 2 * Len(GetsOf(stream))
         /\ \A k \in 1..Len(GetsOf(stream)) :
              /\ log[2 * k - 1].t = "req"
              /\ log[2 * k - 1].req = Alone(GetsOf(stream)[k])
              /\ EmptyFin(log[2 * k])
         /\ U32IsZero(remainingStreamingBytes)
         /\ fallback = <<>>

\* C12, its case: three GETs fed in more than one call, the call that
\* ends the stream completes a head from the fallback buffer and goes on
\* to a further request in the same call.
C12_Witness ==
  /\ live /\ stream = "pipeline" /\ pos = Len(Bytes)
  /\ ~last.first /\ ~last.fresh
  /\ Cardinality(LastEvents("req")) >= 2
  /\ Len(log) = 6

\* lower(name): the upper-case letters of a name turned to lower case.
Lower(name) ==
  [i \in 1..Len(name) |->
     IF name[i] >= 65 /\ name[i] <= 90 THEN name[i] + 32 ELSE name[i]]

\* The value of the first of the header lines hs whose name is name in
\* whatever case.
FirstValue(hs, name) ==
  hs[Least({k \in 1..Len(hs) : Lower(hs[k].key) = name})].value

\* Names that are no header of stream "names": "x-id", "hos", "".
AbsentNames == {<<120, 45, 105, 100>>, <<104, 111, 115>>, <<>>}

(***************************************************************************)
(* C13 (header lookup): for every header line of a parsed head, whatever   *)
(* the case of its name on the wire, getHeader(lower(name)) returns that   *)
(* header's value (the first one for duplicates); for a name that is not a *)
(* header of the request getHeader returns an empty view.                  *)
(***************************************************************************)
C13_HeaderLookup ==
  stream = "names" =>
    \A i \in Requests :
      /\ \A k \in 1..Len(NamesHeaders) :
           getHeader(log[i].req, Lower(NamesHeaders[k].key))
             = FirstValue(NamesHeaders, Lower(NamesHeaders[k].key))
      /\ \A name \in AbsentNames : getHeader(log[i].req, name) = <<>>

\* The request target of the k-th request of stream "targets" as the
\* request handler saw it.
Seen(k) == log[RequestAt(k)].req
HasQuestion(target) == \E j \in 1..Len(target) : target[j] = QUESTION

(***************************************************************************)
(* C14 (URL/query round trip), as claimed: for every parsed request,       *)
(* getUrl() followed by "?" and getQuery(), the "?" omitted when           *)
(* getQuery() is empty, equals the request target of the request line.     *)
(***************************************************************************)
C14_RoundTrip ==
  (live /\ stream = "targets") =>
    \A k \in 1..Cardinality(Requests) :
      getUrl(Seen(k))
          \o (IF getQuery(Seen(k)) = <<>> THEN <<>>
              ELSE <<QUESTION>> \o getQuery(Seen(k)))
        = Targets[k].path

(***************************************************************************)
(* C14, amended: getUrl() followed by "?" and getQuery(), the "?" omitted  *)
(* when the request target holds no "?", equals the request target of the  *)
(* request line.                                                           *)
(***************************************************************************)
C14_RoundTripOfSeparator ==
  (live /\ stream = "targets") =>
    \A k \in 1..Cardinality(Requests) :
      getUrl(Seen(k))
          \o (IF HasQuestion(Targets[k].path)
              THEN <<QUESTION>> \o getQuery(Seen(k)) ELSE <<>>)
        = Targets[k].path

\* C14, its case: the three requests are parsed; the first has a query
\* with a '?' in it, the second an empty query after a '?'.
C14_Witness ==
  /\ live /\ stream = "targets" /\ Cardinality(Requests) = 3
  /\ getQuery(Seen(1)) = <<98, 63, 99>>
  /\ getUrl(Seen(2)) = <<47, 97>> /\ getQuery(Seen(2)) = <<>>
  /\ getUrl(Seen(3)) = <<47, 120>>

\* The pair is (count, array): the array holds first elements.
CountAndArray == Len(currentParameters.second) = currentParameters.first
\* The pair is (index of the last element, array).
LastAndArray == Len(currentParameters.second) = currentParameters.first + 1

(***************************************************************************)
(* C15 (route parameter access): with currentParameters = (count, array),  *)
(* getParameter(index) returns array[index] when index < count and an      *)
(* empty view for every index that is out of range (index >= count), and   *)
(* never reads the array past its supplied elements.                       *)
(***************************************************************************)
C15_ParameterInRange ==
  (parameter.called /\ CountAndArray) =>
    /\ ~parameter.past
    /\ ~parameter.died
    /\ parameter.value =
         IF parameter.index < currentParameters.first
         THEN currentParameters.second[parameter.index + 1]
         ELSE EmptyView

\* Where the first member is the index of the last element of the array
\* (-1 when it has none), getParameter(index) returns array[index] when
\* index <= first and an empty view for every index > first, and reads no
\* element that was not supplied.
ParameterUpToLast ==
  (parameter.called /\ LastAndArray) =>
    /\ ~parameter.past
    /\ parameter.value =
         IF parameter.index <= currentParameters.first
         THEN currentParameters.second[parameter.index + 1]
         ELSE EmptyView

\* The head of a stream that declares a long body has just been completed
\* and no byte of the body has arrived.
LongBodyBegins ==
  /\ live /\ stream \in {"huge", "wrap"}
  /\ pos = Len(Bytes) - Len(Abcde)
  /\ LastEvents("req") # {}

(***************************************************************************)
(* C16 (Content-Length framing): when a non-GET head carrying a            *)
(* Content-Length header is completed, the parser is in length mode with   *)
(* the remaining counter equal to the header's decimal value: for the      *)
(* values 2^30 and 2^32, before any body byte arrives,                     *)
(* remainingStreamingBytes carries no chunked-mode bit and is not 0.       *)
(***************************************************************************)
C16_ContentLengthFraming ==
  LongBodyBegins =>
    /\ ~isParsingChunkedEncoding(remainingStreamingBytes)
    /\ ~U32IsZero(remainingStreamingBytes)

\* The last call completed the head of the chunked POST from the fallback
\* buffer and its window ended inside the chunked body.
ChunkedHeadFromFallback ==
  /\ live /\ stream = "chunked"
  /\ last.called /\ ~last.fresh /\ LastEvents("req") # {}
  /\ pos >= Len(PostChunked)
  /\ pos < Len(PostChunked) + Len(FooChunked)

(***************************************************************************)
(* C17 (chunked body after a fragmented head): when a non-GET head without *)
(* Content-Length is completed from the fallback buffer, the parser enters *)
(* chunked mode and the rest of the window goes through the chunked        *)
(* decoder: up to the terminating chunk remainingStreamingBytes holds a    *)
(* chunked state and the data handler has been given nothing but decoded   *)
(* body bytes.                                                             *)
(***************************************************************************)
C17_ChunkedAfterFragmentedHead ==
  ChunkedHeadFromFallback =>
    /\ isParsingChunkedEncoding(remainingStreamingBytes)
    /\ \A i \in LastEvents("data") :
         /\ ~last.events[i].fin
         /\ \E n \in 0..Len(Foo) : \E m \in n..Len(Foo) :
              last.events[i].data = SubSeq(Foo, n + 1, m)

\* Length mode with bytes outstanding: no state bit, a count above 0.
LengthMode ==
  remainingStreamingBytes.hi = 0 /\ remainingStreamingBytes.lo > 0

\* A call made in length mode with remaining bytes outstanding on a window
\* of available bytes: its first event is the data handler's, with the
\* first N = min(remaining, available) bytes of the window and
\* fin = (N = remaining).  With N < remaining that is all it does and the
\* count goes down by N.  With N = remaining, and the handlers returning
\* the user token, the bytes after the N-th are parsed as a parser without
\* a body to go on parses them.
LengthModeStep ==
  (LengthMode /\ pos' > pos) =>
    LET remaining == remainingStreamingBytes.lo
        N == Min(remaining, pos' - pos)
        rests == consumePostPadded(fallback, U32Zero,
                                   SubSeq(Bytes, pos + N + 1, pos'),
                                   NoBehaviour)
    IN  /\ Len(last'.events) >= 1
        /\ last'.events[1].t = "data"
        /\ last'.events[1].data = SubSeq(Bytes, pos + 1, pos + N)
        /\ last'.events[1].fin = (N = remaining)
        /\ N < remaining =>
             /\ Len(last'.events) = 1
             /\ remainingStreamingBytes' = U32(0, remaining - N)
        /\ (N = remaining /\ pos' = pos + N) =>
             /\ Len(last'.events) = 1
             /\ U32IsZero(remainingStreamingBytes')
        /\ (N = remaining /\ pos' > pos + N
              /\ AllReturnUser(last'.events) /\ last'.ret = USER) =>
             \E rest \in rests :
               /\ SubSeq(last'.events, 2, Len(last'.events)) = rest.events
               /\ remainingStreamingBytes' = rest.rsb
               /\ fallback' = rest.fallback

\* Stream "length" (a body of Content-Length 5, then a GET) with every
\* handler returning the user token: once the head is parsed the data
\* handler has been given the body bytes fed so far and no more than 5,
\* fin with the fifth, the count is what is left of the 5, and what
\* follows the fifth is parsed as the next head.
LengthBodySoFar ==
  (live /\ stream = "length" /\ pos >= Len(PostLength)) =>
    LET fed == Min(Len(Abcde), pos - Len(PostLength)) IN
    /\ Len(log) >= 2
    /\ log[1].t = "req"
    /\ log[2] = Entry("data", NoRequest, SubSeq(Abcde, 1, fed),
                      fed = Len(Abcde))
    /\ fed < Len(Abcde) =>
         Len(log) = 2 /\ remainingStreamingBytes = U32(0, Len(Abcde) - fed)
    /\ pos = Len(Bytes) =>
         /\ Len(log) = 4
         /\ log[3].t = "req" /\ log[3].req = Alone(Get)
         /\ EmptyFin(log[4])
         /\ U32IsZero(remainingStreamingBytes)

(***************************************************************************)
(* C18 (length-mode emission): whenever the parser is in length mode with  *)
(* remaining bytes outstanding and available window bytes, it emits        *)
(* exactly N = min(remaining, available) bytes to the data handler with    *)
(* fin = (N = remaining) and decrements remaining by N; over any sequence  *)
(* of calls the bytes emitted for one request never exceed its             *)
(* Content-Length, and the bytes after the N-th are parsed as the next     *)
(* head.                                                                   *)
(***************************************************************************)
C18_LengthModeEmission == [][LengthModeStep]_vars /\ []LengthBodySoFar

\* C18, its case: a call made in length mode on a window that holds the
\* end of the body and the next head has emitted the end of the body with
\* fin and gone on to the next request.
C18_Witness ==
  /\ live /\ stream = "length" /\ pos = Len(Bytes)
  /\ Len(last.events) = 3
  /\ last.events[1].t = "data" /\ last.events[1].fin
  /\ Len(last.events[1].data) \in 1..(Len(Abcde) - 1)
  /\ last.events[2].t = "req"

\* What getHeaders makes of the bytes of the stream fed so far; its
\* headers are the slots it filled, the first of them slot 0.
HeadersSoFar == getHeaders(Fenced(SubSeq(Bytes, 1, pos)), 1)

(***************************************************************************)
(* C19 (header capacity): getHeaders never writes a header slot at index   *)
(* MAX_HEADERS (50) or above.  On success the request line, the header     *)
(* lines and the empty-key sentinel occupy indices 0..49 at most: a head   *)
(* of MAX_HEADERS - 2 header lines is parsed and fills them all.  A head   *)
(* with one header line more makes getHeaders return 0 and the request     *)
(* handler is not invoked.                                                 *)
(***************************************************************************)
C19_HeaderCapacity ==
  /\ \A i \in Requests : Len(log[i].req.headers) <= MAX_HEADERS
  /\ stream \in {"fits", "toomany"} =>
       Len(HeadersSoFar.headers) <= MAX_HEADERS
  /\ (stream = "fits" /\ live /\ pos = Len(Bytes)) =>
       /\ Cardinality(Requests) = 1
       /\ Len(Seen(1).headers) = MAX_HEADERS
       /\ \A j \in 2..(MAX_HEADERS - 1) :
            Seen(1).headers[j] = Header(<<97>>, <<98>>)
       /\ Seen(1).headers[MAX_HEADERS] = Header(<<>>, <<>>)
  /\ stream = "toomany" =>
       /\ HeadersSoFar.consumed = 0
       /\ Requests = {}

\* C19, its case: the head with one header line more than fit has been
\* fed whole, the last calls from the fallback buffer: getHeaders filled
\* slots 0..48 and returned 0, no request handler was invoked, the bytes
\* are in the fallback buffer.
C19_Witness ==
  /\ stream = "toomany" /\ pos = Len(Bytes) /\ ~last.first
  /\ Len(HeadersSoFar.headers) = MAX_HEADERS - 1
  /\ HeadersSoFar.consumed = 0
  /\ Len(fallback) = Len(Bytes)
  /\ log = <<>>

(***************************************************************************)
(* C20 (no window underflow in the fallback path): whenever                *)
(* fenceAndConsumePostPadded<true> over the fallback buffer reports        *)
(* consumed.first > 0, consumed.first >= had, the length of the fallback   *)
(* buffer before the append, so that data += consumed.first - had and      *)
(* length -= consumed.first - had do not wrap, whatever calls came before. *)
(***************************************************************************)
C20_NoWindowUnderflow == ~last.underflow

\* The heads of the requests of the streams that vary the shape of the
\* head, as they are written on the wire.
ValidHeads ==
  {Get, GetQuery, HeadOf(GetLine, NamesHeaders), PostOf(TwoTo30Digits),
   PostOf(TwoTo32Digits), GetWith(MAX_HEADERS - 2)}
    \cup {GetOf(Targets[k]) : k \in 1..Len(Targets)}

\* Where the line of byte j of x begins: after the last LF before j.
LineStart(x, j) ==
  LET before == {k \in 1..(j - 1) : x[k] = LF} IN
  IF before = {} THEN 1
  ELSE 1 + (CHOOSE k \in before : \A m \in before : m <= k)

\* Byte j of x belongs to the key of its line: the method of the request
\* line or the name of a header line, the bytes before the first colon or
\* blank.
InKey(x, j) == \A k \in LineStart(x, j)..j : x[k] # COLON /\ x[k] > SPACE

\* a holds the bytes of x in order, key bytes possibly in lower case.
KeysLowered(a, x) ==
  /\ Len(a) = Len(x)
  /\ \A j \in 1..Len(x) :
       \/ a[j] = x[j]
       \/ InKey(x, j) /\ a[j] = Lower(x)[j]

\* y, whose keys earlier calls may have lower-cased, is only a proper
\* prefix of a valid head.
ProperPrefixOfHead(y) ==
  \E h \in ValidHeads :
    Len(y) < Len(h) /\ KeysLowered(y, SubSeq(h, 1, Len(y)))

\* A call made with no body in progress on a window that, after the
\* contents of the fallback buffer, is only a proper prefix of a valid head
\* of fewer than MAX_FALLBACK_SIZE bytes: it invokes no handler, returns
\* the token passed in, leaves remainingStreamingBytes at 0 and the
\* fallback buffer holds those bytes in order, key bytes possibly in lower
\* case.
IncompleteHeadStep ==
  LET Carried(y) ==
        (Len(y) < MAX_FALLBACK_SIZE /\ ProperPrefixOfHead(y)) =>
          /\ last'.events = <<>>
          /\ last'.ret = USER
          /\ U32IsZero(remainingStreamingBytes')
          /\ KeysLowered(fallback', y)
  IN  (U32IsZero(remainingStreamingBytes) /\ pos' > pos) =>
        Carried(fallback \o SubSeq(Bytes, pos + 1, pos'))

(***************************************************************************)
(* C21 (incomplete head is carried over silently): if no body is in        *)
(* progress and the bytes received so far (fallback contents plus the      *)
(* window, fewer than MAX_FALLBACK_SIZE in total) are only a proper prefix *)
(* of a valid head, consumePostPadded invokes none of the three handlers,  *)
(* returns the token passed in, leaves remainingStreamingBytes at 0, and   *)
(* afterwards the fallback buffer holds exactly those bytes in order       *)
(* (header keys possibly lower-cased in place).                            *)
(***************************************************************************)
C21_IncompleteHeadCarried == [][IncompleteHeadStep]_vars

=============================================================================
